---- MODULE Spec2Model ----
(***************************************************************************)
(* Model of the Google Cloud Storage FTP driver (driver.go, fileinfo.go).  *)
(*                                                                         *)
(* Strings are sequences of one-character strings, so that the byte-level  *)
(* behaviour of strings.TrimLeft / HasPrefix / Split / Replace is the      *)
(* behaviour of the model.  A bucket is a function from keys to contents;  *)
(* the backend lists keys in lexicographic order.                          *)
(***************************************************************************)
EXTENDS Integers, Sequences, FiniteSets, TLC

\* ------------------------------------------------------------------ bounds
\* most objects the buckets hold together
MaxObjs == 2
\* the last backend call of a driver call that the environment can make fail
MaxFaultAt == 3

\* the characters of paths and keys; "/" is the separator
Chars == {"/", "d", "x"}
SEP == <<"/">>
\* byte order of the characters (for the backend's lexicographic listing)
Rank(c) == CASE c = "/" -> 1 [] c = "d" -> 2 [] OTHER -> 3

\* the paths the session hands to the driver: Stat is tried on all of Paths,
\* every other operation on the subset below that exercises its branches
Paths == {<<"/">>, <<"d">>, <<"/", "x">>, <<"d", "/">>,
          <<"d", "/", "d">>, <<"d", "/", "x">>, <<"d", "x">>}
FilePaths == {<<"d">>, <<"/", "x">>, <<"d", "/", "d">>, <<"d", "/", "x">>, <<"d", "x">>}
DirPaths == {<<"d">>, <<"d", "/", "d">>}
RenamePaths == {<<"d">>, <<"/", "x">>}
CdPaths == {<<"/">>, <<"d">>}
ListPaths == {<<"/">>, <<"d">>, <<"d", "/">>, <<"d", "/", "d">>}
\* object bodies
Data == {<<>>, <<1>>}
Users == {"u1", "u2"}

\* ------------------------------------------------------- package strings
Drop(s, n) == SubSeq(s, n + 1, Len(s))
Take(s, n) == SubSeq(s, 1, n)
CharSet(s) == {s[i] : i \in 1..Len(s)}

HasPrefix(s, p) == Len(s) >= Len(p) /\ Take(s, Len(p)) = p
HasSuffix(s, p) == Len(s) >= Len(p) /\ Drop(s, Len(s) - Len(p)) = p

\* strings.TrimLeft(s, cutset): drops every leading character that is in cutset
RECURSIVE TrimLeft(_, _)
TrimLeft(s, cutset) ==
    IF s # <<>> /\ s[1] \in CharSet(cutset) THEN TrimLeft(Tail(s), cutset) ELSE s

RECURSIVE TrimRight(_, _)
TrimRight(s, cutset) ==
    IF s # <<>> /\ s[Len(s)] \in CharSet(cutset)
    THEN TrimRight(Take(s, Len(s) - 1), cutset) ELSE s

\* strings.Trim(s, cutset)
Trim(s, cutset) == TrimRight(TrimLeft(s, cutset), cutset)

\* strings.Index(s, sub): 0-based index of the first occurrence, -1 if none
Index(s, sub) ==
    LET hits == {i \in 0..(Len(s) - Len(sub)) : HasPrefix(Drop(s, i), sub)}
    IN  IF hits = {} THEN -1 ELSE CHOOSE i \in hits : \A j \in hits : i <= j

Contains(s, sub) == Index(s, sub) >= 0

\* strings.Split(s, sep)[0]
SplitFirst(s, sep) == IF Contains(s, sep) THEN Take(s, Index(s, sep)) ELSE s

\* strings.Replace(s, old, new, 1)
ReplaceFirst(s, old, new) ==
    IF Contains(s, old)
    THEN Take(s, Index(s, old)) \o new \o Drop(s, Index(s, old) + Len(old))
    ELSE s

\* --------------------------------------------------------------- backend
\* lexicographic (byte) order of keys
RECURSIVE StrLess(_, _)
StrLess(a, b) ==
    IF b = <<>> THEN FALSE
    ELSE IF a = <<>> THEN TRUE
    ELSE IF a[1] # b[1] THEN Rank(a[1]) < Rank(b[1])
    ELSE StrLess(Tail(a), Tail(b))

RECURSIVE SortKeys(_)
SortKeys(S) ==
    IF S = {} THEN <<>>
    ELSE LET m == CHOOSE k \in S : \A o \in S : o = k \/ StrLess(k, o)
         IN  <<m>> \o SortKeys(S \ {m})

\* the keys of bucket contents `objs` that begin with `prefix`, in listing order
ListKeys(objs, prefix) == SortKeys({k \in DOMAIN objs : HasPrefix(k, prefix)})

\* the storage.Object record of the object at key k
ObjectOf(objs, k) == [Name |-> k, Size |-> Len(objs[k])]
\* storage.Object{}
ZeroObject == [Name |-> <<>>, Size |-> 0]

\* the bucket contents without key k / with key k set to body
Without(objs, k) == [j \in DOMAIN objs \ {k} |-> objs[j]]
With(objs, k, body) == [j \in DOMAIN objs \cup {k} |-> IF j = k THEN body ELSE objs[j]]

\* ---------------------------------------------------------- driver state
VARIABLES
    store,          \* bucket name -> (key -> body): the backend
    bucketPerUser,  \* GoogleStorageDriver.bucketPerUser
    loginUser,      \* conn.LoginUser()
    curDir,         \* GoogleStorageDriver.curDir
    alive,          \* FALSE once log.Fatal or a panic has ended the process
    last            \* the last driver call: its arguments, outcome and backend calls

vars == <<store, bucketPerUser, loginUser, curDir, alive, last>>

\* GoogleStorageDriver.bucket
bucket == <<"b">>
Buckets == {bucket} \cup {bucket \o <<"-">> \o <<u>> : u \in Users}

\* the bucket every backend call of a driver call addresses
getUserBucketShared == bucket
getUserBucket ==
    IF bucketPerUser THEN bucket \o <<"-">> \o <<loginUser>> ELSE bucket

\* ------------------------------------------------- backend call outcomes
\* What the environment does to one driver call: the at-th backend call of the
\* call fails with error `kind` (at = 0: none fails), and a lookup of a missing
\* object fails with an error whose text is `miss`.  "ENOENT" stands for any
\* error whose text contains "no such file or directory".
FaultKinds == {"IOError", "EOF"}
MissKinds == {"ENOENT", "NotFound"}
Fault(env, i) == IF env.at = i THEN env.kind ELSE "nil"

Call(api, b, k, to, err) == [api |-> api, bucket |-> b, key |-> k, to |-> to, err |-> err]

\* Objects.Get(b, k).Do()
GetErr(st, b, k, env, i) ==
    IF Fault(env, i) # "nil" THEN Fault(env, i)
    ELSE IF k \in DOMAIN st[b] THEN "nil" ELSE env.miss

\* Objects.Delete(b, k).Do()
DeleteErr(st, b, k, env, i) == GetErr(st, b, k, env, i)
DeleteSt(st, b, k, err) ==
    IF err = "nil" THEN [st EXCEPT ![b] = Without(@, k)] ELSE st

\* Objects.Copy(b, from, b, to, nil).Do()
CopyErr(st, b, from, env, i) == GetErr(st, b, from, env, i)
CopySt(st, b, from, to, err) ==
    IF err = "nil" THEN [st EXCEPT ![b] = With(@, to, st[b][from])] ELSE st

\* Objects.Insert(b, &Object{Name: k}).Media(body).Do(); the backend refuses
\* an empty object name
InsertErr(k, env, i) ==
    IF Fault(env, i) # "nil" THEN Fault(env, i)
    ELSE IF k = <<>> THEN "IOError" ELSE "nil"
InsertSt(st, b, k, body, err) ==
    IF err = "nil" THEN [st EXCEPT ![b] = With(@, k, body)] ELSE st

\* ---------------------------------------------------- results of a call
\* fate: "return" (the call returned), "fatal" (log.Fatal ended the process),
\* "panic" (nil dereference)
Result(st, fate, err, ent, visited, calls) ==
    [st |-> st, fate |-> fate, err |-> err, ent |-> ent, visited |-> visited,
     calls |-> calls, size |-> 0, body |-> <<>>]

\* &FileInfo{name, isDir, User, Object}
FileInfo(name, isDir, user, object) ==
    [name |-> name, isDir |-> isDir, User |-> user, Object |-> object]

\* --------------------------------------------------------------- Stat
\* strings.HasSuffix(key, "/"): an explicit directory path
IsExplicitDirNever(key) == FALSE
IsExplicitDir(key) == HasSuffix(key, SEP)

\* after a failed lookup: a directory if the prefix listing has items
StatInferNever(key, items, calls) ==
    Result(store, "return", "DirNotExist", <<>>, <<>>, calls)
StatInfer(key, items, calls) ==
    IF Len(items) > 0
    THEN Result(store, "return", "nil",
                <<FileInfo(key, TRUE, loginUser, ZeroObject)>>, <<>>, calls)
    ELSE Result(store, "return", "DirNotExist", <<>>, <<>>, calls)

Stat(key, env) ==
    LET user == loginUser
        b    == getUserBucket
        k    == TrimLeft(key, SEP)
        e1   == GetErr(store, b, k, env, 1)
        c1   == Call("Get", b, k, <<>>, e1)
        e2   == Fault(env, 2)
        c2   == Call("List", b, k, <<>>, e2)
    IN  IF IsExplicitDir(key)
        THEN Result(store, "return", "nil",
                    <<FileInfo(key, TRUE, user, ZeroObject)>>, <<>>, <<>>)
        ELSE IF e1 # "nil"
        THEN IF e2 # "nil"
             THEN Result(store, "fatal", e2, <<>>, <<>>, <<c1, c2>>)
             ELSE StatInfer(key, ListKeys(store[b], k), <<c1, c2>>)
        ELSE Result(store, "return", "nil",
                    <<FileInfo(key, FALSE, user, ObjectOf(store[b], k))>>, <<>>, <<c1>>)

\* ---------------------------------------------------------- ChangeDir
\* the error ChangeDir returns and the current directory it leaves
ChangeDirAnyEntity(path, env) ==
    LET f == Stat(path, env)
        r == [f EXCEPT !.ent = <<>>]
    IN  IF f.fate # "return" THEN [res |-> r, cur |-> curDir]
        ELSE IF f.err # "nil" THEN [res |-> r, cur |-> curDir]
        ELSE [res |-> r, cur |-> path]
ChangeDir(path, env) ==
    LET f == Stat(path, env)
        r == [f EXCEPT !.ent = <<>>]
    IN  IF f.fate # "return" THEN [res |-> r, cur |-> curDir]
        ELSE IF f.err # "nil" THEN [res |-> r, cur |-> curDir]
        ELSE IF ~f.ent[1].isDir
        THEN [res |-> [r EXCEPT !.err = "NotADirectory"], cur |-> curDir]
        ELSE [res |-> r, cur |-> path]

\* ------------------------------------------------------------ MakeDir
MakeDir(path, env) ==
    LET dir == TrimLeft(path, SEP) \o SEP
        b   == getUserBucket
        e1  == InsertErr(dir, env, 1)
    IN  Result(InsertSt(store, b, dir, <<>>, e1), "return", e1, <<>>, <<>>,
               <<Call("Insert", b, dir, <<>>, e1)>>)

\* ------------------------------------------------------------ ListDir
\* the key prefix ListDir lists: "" or the path with one "/" appended
ListPrefix(prefix) ==
    LET d == TrimLeft(prefix, SEP)
    IN  IF d # <<>> THEN d \o SEP ELSE d

\* the name ListDir derives from a listed key
ListName(name, d) == TrimLeft(TrimLeft(name, d), SEP)

\* a loop that goes on visiting after the visitor failed and returns the
\* visitor's error at the end
RECURSIVE ListLoopContinuing(_, _, _, _, _, _, _)
ListLoopContinuing(objs, items, i, dirCache, visited, prefix, cbFailAt) ==
    IF i > Len(items)
    THEN [visited |-> visited,
          err |-> IF cbFailAt \in 1..Len(visited) THEN "VisitorError" ELSE "nil"]
    ELSE
    LET d     == IF TrimLeft(prefix, SEP) # <<>> THEN TrimLeft(prefix, SEP) \o SEP
                 ELSE <<>>
        entry == ObjectOf(objs, items[i])
        key   == TrimLeft(TrimLeft(entry.Name, d), SEP)
        seg   == Trim(SplitFirst(key, SEP), SEP)
        isDir == Contains(key, SEP)
        f     == IF isDir THEN FileInfo(seg, TRUE, loginUser, entry)
                 ELSE FileInfo(key, FALSE, loginUser, entry)
        skip  == \/ prefix # SEP /\ prefix # <<>> /\ ~HasPrefix(entry.Name, d)
                 \/ key = <<>>
                 \/ isDir /\ seg \in dirCache
    IN  ListLoopContinuing(objs, items, i + 1,
                           IF isDir /\ ~skip THEN dirCache \cup {seg} ELSE dirCache,
                           IF skip THEN visited ELSE Append(visited, f),
                           prefix, cbFailAt)

\* the loop over entries.Items from item i on; the visitor fails on its
\* cbFailAt-th invocation (0: never)
RECURSIVE ListLoop(_, _, _, _, _, _, _)
ListLoop(objs, items, i, dirCache, visited, prefix, cbFailAt) ==
    IF i > Len(items) THEN [visited |-> visited, err |-> "nil"]
    ELSE
    LET d     == ListPrefix(prefix)
        entry == ObjectOf(objs, items[i])
        key   == ListName(entry.Name, d)
        seg   == Trim(SplitFirst(key, SEP), SEP)
        isDir == Contains(key, SEP)
        f     == IF isDir THEN FileInfo(seg, TRUE, loginUser, entry)
                 ELSE FileInfo(key, FALSE, loginUser, entry)
        seen  == Append(visited, f)
    IN  IF prefix # SEP /\ prefix # <<>> /\ ~HasPrefix(entry.Name, d)
        THEN ListLoop(objs, items, i + 1, dirCache, visited, prefix, cbFailAt)
        ELSE IF key = <<>>
        THEN ListLoop(objs, items, i + 1, dirCache, visited, prefix, cbFailAt)
        ELSE IF isDir /\ seg \in dirCache
        THEN ListLoop(objs, items, i + 1, dirCache, visited, prefix, cbFailAt)
        ELSE IF Len(seen) = cbFailAt
        THEN [visited |-> seen, err |-> "VisitorError"]
        ELSE ListLoop(objs, items, i + 1,
                      IF isDir THEN dirCache \cup {seg} ELSE dirCache,
                      seen, prefix, cbFailAt)

\* a ListDir that removes the first key it lists
ListDirConsuming(prefix, env, cbFailAt) ==
    LET d  == ListPrefix(prefix)
        b  == getUserBucket
        e1 == Fault(env, 1)
        c1 == Call("List", b, d, <<>>, e1)
        items == ListKeys(store[b], d)
        lp == ListLoop(store[b], items, 1, {}, <<>>, prefix, cbFailAt)
        st == IF items = <<>> THEN store ELSE DeleteSt(store, b, items[1], "nil")
    IN  IF e1 = "EOF" THEN Result(store, "panic", "nil", <<>>, <<>>, <<c1>>)
        ELSE IF e1 # "nil" THEN Result(store, "return", e1, <<>>, <<>>, <<c1>>)
        ELSE Result(st, "return", lp.err, <<>>, lp.visited, <<c1>>)
ListDir(prefix, env, cbFailAt) ==
    LET d  == ListPrefix(prefix)
        b  == getUserBucket
        e1 == Fault(env, 1)
        c1 == Call("List", b, d, <<>>, e1)
        lp == ListLoop(store[b], ListKeys(store[b], d), 1, {}, <<>>, prefix, cbFailAt)
    IN  IF e1 = "EOF" THEN Result(store, "panic", "nil", <<>>, <<>>, <<c1>>)
        ELSE IF e1 # "nil" THEN Result(store, "return", e1, <<>>, <<>>, <<c1>>)
        ELSE Result(store, "return", lp.err, <<>>, lp.visited, <<c1>>)

\* ---------------------------------------------------------- DeleteDir
\* the loop over entries.Items from item i on; its delete is backend call i + 1
\* a loop that goes on to the next item after a failed delete
RECURSIVE DeleteLoopContinuing(_, _, _, _, _, _)
DeleteLoopContinuing(st, b, items, i, env, calls) ==
    IF i > Len(items) THEN Result(st, "return", "nil", <<>>, <<>>, calls)
    ELSE
    LET e  == DeleteErr(st, b, items[i], env, i + 1)
        cs == Append(calls, Call("Delete", b, items[i], <<>>, e))
    IN  DeleteLoopContinuing(DeleteSt(st, b, items[i], e), b, items, i + 1, env, cs)
RECURSIVE DeleteLoop(_, _, _, _, _, _)
DeleteLoop(st, b, items, i, env, calls) ==
    IF i > Len(items) THEN Result(st, "return", "nil", <<>>, <<>>, calls)
    ELSE
    LET e  == DeleteErr(st, b, items[i], env, i + 1)
        cs == Append(calls, Call("Delete", b, items[i], <<>>, e))
    IN  IF e # "nil" THEN Result(st, "return", e, <<>>, <<>>, cs)
        ELSE DeleteLoop(DeleteSt(st, b, items[i], e), b, items, i + 1, env, cs)

DeleteDirMissingFails(key, env) ==
    LET d  == TrimLeft(key, SEP)
        b  == getUserBucket
        e1 == Fault(env, 1)
        c1 == Call("List", b, d, <<>>, e1)
        items == ListKeys(store[b], d)
    IN  IF e1 = "EOF" THEN Result(store, "panic", "nil", <<>>, <<>>, <<c1>>)
        ELSE IF e1 # "nil" THEN Result(store, "return", e1, <<>>, <<>>, <<c1>>)
        ELSE IF Len(items) = 0
        THEN Result(store, "return", "NotFound", <<>>, <<>>, <<c1>>)
        ELSE DeleteLoop(store, b, items, 1, env, <<c1>>)
DeleteDir(key, env) ==
    LET d  == TrimLeft(key, SEP)
        b  == getUserBucket
        e1 == Fault(env, 1)
        c1 == Call("List", b, d, <<>>, e1)
        items == ListKeys(store[b], d)
    IN  IF e1 = "EOF" THEN Result(store, "panic", "nil", <<>>, <<>>, <<c1>>)
        ELSE IF e1 # "nil" THEN Result(store, "return", e1, <<>>, <<>>, <<c1>>)
        ELSE IF Len(items) = 0 THEN Result(store, "return", "nil", <<>>, <<>>, <<c1>>)
        ELSE DeleteLoop(store, b, items, 1, env, <<c1>>)

\* --------------------------------------------------------- DeleteFile
DeleteFile(key, env) ==
    LET k  == TrimLeft(key, SEP)
        b  == getUserBucket
        e1 == DeleteErr(store, b, k, env, 1)
    IN  Result(DeleteSt(store, b, k, e1), "return", e1, <<>>, <<>>,
               <<Call("Delete", b, k, <<>>, e1)>>)

\* ------------------------------------------------------------- Rename
\* the directory form's loop over entries.Items from item i on; the copy of
\* item i is backend call 2i + 2 and its delete is call 2i + 3
RECURSIVE RenameLoop(_, _, _, _, _, _, _, _)
RenameLoop(st, b, items, i, from, to, env, calls) ==
    IF i > Len(items) THEN Result(st, "return", "nil", <<>>, <<>>, calls)
    ELSE
    LET name    == items[i]
        newName == ReplaceFirst(name, from, to)
        ec      == CopyErr(st, b, name, env, 2 * i + 2)
        st1     == CopySt(st, b, name, newName, ec)
        cs1     == Append(calls, Call("Copy", b, name, newName, ec))
        ed      == DeleteErr(st1, b, name, env, 2 * i + 3)
        st2     == DeleteSt(st1, b, name, ed)
        cs2     == Append(cs1, Call("Delete", b, name, <<>>, ed))
    IN  IF ec # "nil" THEN Result(st1, "return", ec, <<>>, <<>>, cs1)
        ELSE IF ed # "nil" THEN Result(st2, "return", ed, <<>>, <<>>, cs2)
        ELSE RenameLoop(st2, b, items, i + 1, from, to, env, cs2)

\* the file form, after the lookup of `from` succeeded: copy (call 2), then
\* delete (call 3); the copy's error is overwritten by the delete's
RenameFileCopyOnly(b, from, to, env, c1) ==
    LET ec    == CopyErr(store, b, from, env, 2)
        st1   == CopySt(store, b, from, to, ec)
        cc    == Call("Copy", b, from, to, ec)
    IN  Result(st1, "return", ec, <<>>, <<>>, <<c1, cc>>)
RenameFile(b, from, to, env, c1) ==
    LET ec    == CopyErr(store, b, from, env, 2)
        st1   == CopySt(store, b, from, to, ec)
        cc    == Call("Copy", b, from, to, ec)
        ed    == DeleteErr(st1, b, from, env, 3)
        st2   == DeleteSt(st1, b, from, ed)
        cd    == Call("Delete", b, from, <<>>, ed)
    IN  Result(st2, "return", ed, <<>>, <<>>, <<c1, cc, cd>>)

Rename(keySrc, keyDest, env) ==
    LET b     == getUserBucket
        from  == TrimLeft(keySrc, SEP)
        to    == TrimLeft(keyDest, SEP)
        e1    == GetErr(store, b, from, env, 1)
        c1    == Call("Get", b, from, <<>>, e1)
        \* the directory form
        fromD == TrimLeft(keySrc, SEP) \o SEP
        toD   == TrimLeft(keyDest, SEP) \o SEP
        e2    == GetErr(store, b, fromD, env, 2)
        c2    == Call("Get", b, fromD, <<>>, e2)
        e3    == Fault(env, 3)
        c3    == Call("List", b, fromD, <<>>, e3)
    IN  IF e1 = "ENOENT"
        THEN IF e2 # "nil" THEN Result(store, "return", e2, <<>>, <<>>, <<c1, c2>>)
             ELSE IF e3 # "nil"
             THEN Result(store, "return", e3, <<>>, <<>>, <<c1, c2, c3>>)
             ELSE RenameLoop(store, b, ListKeys(store[b], fromD), 1, fromD, toD,
                             env, <<c1, c2, c3>>)
        ELSE IF e1 # "nil" THEN Result(store, "return", e1, <<>>, <<>>, <<c1>>)
        ELSE RenameFile(b, from, to, env, c1)

\* ------------------------------------------------------------ GetFile
\* backend call 2 is the download of res.MediaLink; its error is dropped and
\* the nil response is then dereferenced
GetFile(objectName, offset, env) ==
    LET k  == TrimLeft(objectName, SEP)
        b  == getUserBucket
        e1 == GetErr(store, b, k, env, 1)
        c1 == Call("Get", b, k, <<>>, e1)
        e2 == Fault(env, 2)
        c2 == Call("Media", b, k, <<>>, e2)
    IN  IF e1 # "nil" THEN Result(store, "fatal", e1, <<>>, <<>>, <<c1>>)
        ELSE IF e2 # "nil" THEN Result(store, "panic", "nil", <<>>, <<>>, <<c1, c2>>)
        ELSE [Result(store, "return", "nil", <<>>, <<>>, <<c1, c2>>)
                EXCEPT !.size = Len(store[b][k]), !.body = store[b][k]]

\* ------------------------------------------------------------ PutFile
\* a PutFile that honours the append flag
PutFileAppending(objectName, data, appendData, env) ==
    LET k   == TrimLeft(objectName, SEP)
        b   == getUserBucket
        e1  == InsertErr(k, env, 1)
        c1  == Call("Insert", b, k, <<>>, e1)
        old == IF appendData /\ k \in DOMAIN store[b] THEN store[b][k] ELSE <<>>
    IN  IF e1 # "nil" THEN Result(store, "fatal", e1, <<>>, <<>>, <<c1>>)
        ELSE Result(InsertSt(store, b, k, old \o data, e1), "return", "nil",
                    <<>>, <<>>, <<c1>>)
PutFile(objectName, data, appendData, env) ==
    LET k  == TrimLeft(objectName, SEP)
        b  == getUserBucket
        e1 == InsertErr(k, env, 1)
        c1 == Call("Insert", b, k, <<>>, e1)
    IN  IF e1 # "nil" THEN Result(store, "fatal", e1, <<>>, <<>>, <<c1>>)
        ELSE Result(InsertSt(store, b, k, data, e1), "return", "nil", <<>>, <<>>, <<c1>>)

\* ------------------------------------------------------- state machine
\* the environments in which at most the first n backend calls can fail;
\* the error is io.EOF only where the code tells it from the other errors,
\* at a listing that is the first backend call
EnvsUpTo(n, eofAt, missKinds) ==
    {e \in [at : 0..n, kind : FaultKinds, miss : missKinds] :
        e.kind = "EOF" => e.at \in eofAt}
Envs1 == EnvsUpTo(1, {}, {"NotFound"})
Envs2 == EnvsUpTo(2, {}, {"NotFound"})
EnvsList == EnvsUpTo(1, {1}, {"NotFound"})
EnvsDelete == EnvsUpTo(MaxFaultAt, {1}, {"NotFound"})
EnvsRename == EnvsUpTo(MaxFaultAt, {}, MissKinds)

NumObjs(st) == Cardinality(DOMAIN st[bucket])
    + Cardinality(DOMAIN st[bucket \o <<"-", "u1">>])
    + Cardinality(DOMAIN st[bucket \o <<"-", "u2">>])
\* the model follows the buckets only while they stay within the bounds
Bounded(st) == NumObjs(st) <= MaxObjs

\* the record of a driver call that gave result r; opt is PutFile's append
\* flag or the invocation at which ListDir's visitor fails
Last(op, path, dest, data, opt, r) ==
    [op |-> op, path |-> path, dest |-> dest, data |-> data, opt |-> opt,
     fate |-> r.fate, err |-> r.err, ent |-> r.ent, visited |-> r.visited,
     calls |-> r.calls, size |-> r.size, body |-> r.body,
     pre |-> store, preCur |-> curDir]

\* no driver call is in progress or waiting to be answered
Idle ==
    [op |-> "none", path |-> <<>>, dest |-> <<>>, data |-> <<>>, opt |-> <<>>,
     fate |-> "return", err |-> "nil", ent |-> <<>>, visited |-> <<>>,
     calls |-> <<>>, size |-> 0, body |-> <<>>,
     pre |-> [b \in Buckets |-> <<>>], preCur |-> <<>>]

\* NewDriver: curDir "/", the configured bucket and per-user flag; Init(conn)
\* attaches the session
Init ==
    /\ store = [b \in Buckets |-> <<>>]
    /\ bucketPerUser \in BOOLEAN
    /\ loginUser \in Users
    /\ curDir = SEP
    /\ alive = TRUE
    /\ last = Idle

\* The session issues its commands one after the other: a driver call starts
\* when the process is up and the previous call has been answered.
Ready == alive /\ last.op = "none"

\* the driver call `op` with result r ends: the backend is as r left it, and
\* the process is gone after log.Fatal or a panic
Finish(op, path, dest, data, opt, r) ==
    /\ Bounded(r.st)
    /\ store' = r.st
    /\ alive' = (r.fate = "return")
    /\ last' = Last(op, path, dest, data, opt, r)
    /\ UNCHANGED <<bucketPerUser, loginUser>>

\* the protocol engine answers the command and waits for the next one
Reply ==
    /\ alive
    /\ last.op # "none"
    /\ last' = Idle
    /\ UNCHANGED <<store, bucketPerUser, loginUser, curDir, alive>>

\* the session's logged-in user changes between two driver calls
Login ==
    /\ Ready
    /\ \E u \in Users \ {loginUser} :
        /\ loginUser' = u
        /\ last' = Idle
        /\ UNCHANGED <<store, bucketPerUser, curDir, alive>>

DoStat ==
    /\ Ready
    /\ \E p \in Paths, env \in Envs2 :
        /\ Finish("Stat", p, <<>>, <<>>, <<>>, Stat(p, env))
        /\ UNCHANGED curDir

DoChangeDir ==
    /\ Ready
    /\ \E p \in CdPaths, env \in Envs2 :
        /\ Finish("ChangeDir", p, <<>>, <<>>, <<>>, ChangeDir(p, env).res)
        /\ curDir' = ChangeDir(p, env).cur

DoListDir ==
    /\ Ready
    /\ \E p \in ListPaths, env \in EnvsList :
        \E cbFailAt \in 0..Len(ListDir(p, env, 0).visited) :
        /\ Finish("ListDir", p, <<>>, <<>>, <<cbFailAt>>, ListDir(p, env, cbFailAt))
        /\ UNCHANGED curDir

DoDeleteDir ==
    /\ Ready
    /\ \E p \in ListPaths, env \in EnvsDelete :
        /\ Finish("DeleteDir", p, <<>>, <<>>, <<>>, DeleteDir(p, env))
        /\ UNCHANGED curDir

DoDeleteFile ==
    /\ Ready
    /\ \E p \in FilePaths, env \in Envs1 :
        /\ Finish("DeleteFile", p, <<>>, <<>>, <<>>, DeleteFile(p, env))
        /\ UNCHANGED curDir

DoRename ==
    /\ Ready
    /\ \E p \in RenamePaths, q \in RenamePaths, env \in EnvsRename :
        /\ Finish("Rename", p, q, <<>>, <<>>, Rename(p, q, env))
        /\ UNCHANGED curDir

DoMakeDir ==
    /\ Ready
    /\ \E p \in DirPaths, env \in Envs1 :
        /\ Finish("MakeDir", p, <<>>, <<>>, <<>>, MakeDir(p, env))
        /\ UNCHANGED curDir

DoGetFile ==
    /\ Ready
    /\ \E p \in FilePaths, offset \in 0..1, env \in Envs2 :
        /\ Finish("GetFile", p, <<>>, <<>>, <<>>, GetFile(p, offset, env))
        /\ UNCHANGED curDir

DoPutFile ==
    /\ Ready
    /\ \E p \in FilePaths, data \in Data, appendData \in BOOLEAN, env \in Envs1 :
        /\ Finish("PutFile", p, <<>>, data, <<appendData>>, PutFile(p, data, appendData, env))
        /\ UNCHANGED curDir

Next ==
    \/ Login
    \/ Reply
    \/ DoStat
    \/ DoChangeDir
    \/ DoListDir
    \/ DoDeleteDir
    \/ DoDeleteFile
    \/ DoRename
    \/ DoMakeDir
    \/ DoGetFile
    \/ DoPutFile

Spec == Init /\ [][Next]_vars

\* ============================================================== claims
\* the key of a path, the bucket the last call had to use (the login user
\* does not change during a call), what it held before the call and what it
\* holds now
KeyOf(path) == TrimLeft(path, SEP)
CallBucket == IF bucketPerUser THEN <<"b", "-", loginUser>> ELSE <<"b">>
Before == last.pre[CallBucket]
After == store[CallBucket]
Returned == last.fate = "return"
\* every backend call of the last driver call succeeded
AllCallsOk == \A i \in 1..Len(last.calls) : last.calls[i].err = "nil"
\* no backend call of the last driver call failed for another reason than a
\* missing object
NoFault == \A i \in 1..Len(last.calls) : last.calls[i].err \in {"nil"} \cup MissKinds
CallsOf(api) == {i \in 1..Len(last.calls) : last.calls[i].api = api}
\* the keys of `objs` inside directory key dir (dir ends in "/")
Under(objs, dir) == {k \in DOMAIN objs : HasPrefix(k, dir)}

\* C1: Rename of a file. When objects exist at the keys a and b of the two
\* paths, a # b, and every backend call of Rename(a, b) succeeds, Rename
\* returns no error, b holds what a held before and no object is left at a.
C1_RenameFile ==
    LET a == KeyOf(last.path)
        b == KeyOf(last.dest)
    IN  (/\ last.op = "Rename"
         /\ a # b
         /\ a \in DOMAIN Before
         /\ b \in DOMAIN Before
         /\ AllCallsOk)
        => /\ Returned
           /\ last.err = "nil"
           /\ b \in DOMAIN After
           /\ After[b] = Before[a]
           /\ a \notin DOMAIN After

\* C1 happens: a file was renamed onto another file whose content differed
C1_Witness ==
    LET a == KeyOf(last.path)
        b == KeyOf(last.dest)
    IN  /\ last.op = "Rename"
        /\ a # b
        /\ a \in DOMAIN Before
        /\ b \in DOMAIN Before
        /\ Before[a] # Before[b]
        /\ AllCallsOk
        /\ Returned

\* C2: Rename of a directory. When the objects under directory d are two
\* files d/x and d/y, no object exists at the file key d, and no copy or
\* delete of Rename(d, e) fails, both objects end under e with their contents
\* and neither is left under d.
C2_RenameDirectory ==
    LET d == KeyOf(last.path) \o SEP
        e == KeyOf(last.dest) \o SEP
        moved == Under(Before, d)
    IN  (/\ last.op = "Rename"
         /\ d # e
         /\ KeyOf(last.path) \notin DOMAIN Before
         /\ d \notin DOMAIN Before
         /\ Cardinality(moved) = 2
         /\ \A k \in moved : ~Contains(Drop(k, Len(d)), SEP)
         /\ \A i \in CallsOf("Copy") \cup CallsOf("Delete") : last.calls[i].err = "nil")
        => \A k \in moved :
              LET n == e \o Drop(k, Len(d))
              IN  /\ k \notin DOMAIN After
                  /\ n \in DOMAIN After
                  /\ After[n] = Before[k]

\* the key prefix of a directory path: "" for the root, else the key with
\* exactly one trailing "/"
DirKey(path) ==
    LET k == KeyOf(path)
    IN  IF k = <<>> \/ HasSuffix(k, SEP) THEN k ELSE k \o SEP
\* what is left of key k after the directory key dir
Rest(k, dir) == Drop(k, Len(dir))
\* the first-level child that key k stands for in directory dir
ChildOf(k, dir) ==
    IF Contains(Rest(k, dir), SEP)
    THEN [name |-> SplitFirst(Rest(k, dir), SEP), isDir |-> TRUE]
    ELSE [name |-> Rest(k, dir), isDir |-> FALSE]
Children(objs, dir) == {ChildOf(k, dir) : k \in Under(objs, dir) \ {dir}}
Shown == {[name |-> last.visited[i].name, isDir |-> last.visited[i].isDir] :
             i \in 1..Len(last.visited)}
\* the last call was a ListDir whose listing succeeded and whose visitor
\* accepted every entry
Listed == last.op = "ListDir" /\ AllCallsOk /\ Returned /\ last.err = "nil"

\* C3: ListDir visits exactly the first-level children of the prefix, given
\* with or without a trailing separator: one file entity per key directly
\* under it and one directory entity per first-level segment with deeper keys.
C3_ListDirChildren ==
    Listed =>
        /\ Shown = Children(Before, DirKey(last.path))
        /\ Len(last.visited) = Cardinality(Children(Before, DirKey(last.path)))

\* the keys the listing of the last ListDir returned, in listing order
ListedKeys == ListKeys(Before, last.calls[1].key)
\* the first listed key whose first-level segment under dir is the directory seg
FirstKeyOf(seg, dir) ==
    LET hits == {i \in 1..Len(ListedKeys) :
                    ChildOf(ListedKeys[i], dir) = [name |-> seg, isDir |-> TRUE]}
    IN  ListedKeys[CHOOSE i \in hits : \A j \in hits : i <= j]

\* C4: within one ListDir call no first-level directory segment is visited
\* twice, each directory segment of the listed keys is visited for the first
\* listed key that contains it, and the entries come in listing order.
C4_ListDirSegmentsOnce ==
    Listed =>
        LET dir == last.calls[1].key
            v   == last.visited
        IN  /\ \A i, j \in 1..Len(v) :
                   (i < j /\ v[i].isDir /\ v[j].isDir) => v[i].name # v[j].name
            /\ \A n \in 1..Len(ListedKeys) :
                   ChildOf(ListedKeys[n], dir).isDir =>
                       \E i \in 1..Len(v) :
                           /\ v[i].isDir
                           /\ v[i].name = ChildOf(ListedKeys[n], dir).name
                           /\ v[i].Object.Name
                                  = FirstKeyOf(ChildOf(ListedKeys[n], dir).name, dir)
            /\ \A i, j \in 1..Len(v) :
                   i < j => StrLess(v[i].Object.Name, v[j].Object.Name)

\* C5: Stat of a key K that does not end in "/", when no backend call fails
\* for another reason than a missing object: with no object at K and some key
\* beginning with K it returns a directory entity; with no object at K and no
\* key beginning with K it returns the not-found error; with an object at K
\* it returns a file entity built from that object.
C5_StatInference ==
    LET k == KeyOf(last.path)
    IN  (last.op = "Stat" /\ ~HasSuffix(last.path, SEP) /\ NoFault) =>
            /\ Returned
            /\ (k \notin DOMAIN Before /\ Under(Before, k) # {}) =>
                   /\ last.err = "nil"
                   /\ Len(last.ent) = 1
                   /\ last.ent[1].isDir
                   /\ last.ent[1].name = last.path
            /\ (k \notin DOMAIN Before /\ Under(Before, k) = {}) =>
                   /\ last.err = "DirNotExist"
                   /\ last.ent = <<>>
            /\ k \in DOMAIN Before =>
                   /\ last.err = "nil"
                   /\ Len(last.ent) = 1
                   /\ ~last.ent[1].isDir
                   /\ last.ent[1].name = last.path
                   /\ last.ent[1].Object = [Name |-> k, Size |-> Len(Before[k])]

\* C5 happens: Stat inferred a directory from a deeper key
C5_Witness ==
    /\ last.op = "Stat"
    /\ ~HasSuffix(last.path, SEP)
    /\ NoFault
    /\ KeyOf(last.path) \notin DOMAIN Before
    /\ Under(Before, KeyOf(last.path)) # {}
    /\ Returned

\* C6: for every path ending in "/", whatever the bucket holds and whether or
\* not the backend works, Stat returns a directory entity, no error, and
\* issues no backend call.
C6_StatTrailingSlash ==
    (last.op = "Stat" /\ HasSuffix(last.path, SEP)) =>
        /\ Returned
        /\ last.err = "nil"
        /\ last.calls = <<>>
        /\ Len(last.ent) = 1
        /\ last.ent[1].isDir
        /\ last.ent[1].name = last.path

\* C6 happens: Stat of "d/" on a bucket with no key under d/
C6_Witness ==
    /\ last.op = "Stat"
    /\ HasSuffix(last.path, SEP)
    /\ last.path # SEP
    /\ Under(Before, KeyOf(last.path)) = {}
    /\ Returned

\* the directory key of the directory that holds key k, and k's last segment
RECURSIVE ParentKey(_)
ParentKey(k) ==
    IF k = <<>> \/ k[Len(k)] = "/" THEN k ELSE ParentKey(Take(k, Len(k) - 1))
LastSegment(k) == Drop(k, Len(ParentKey(k)))

\* C7: after MakeDir(p) succeeded on a path p with no object at the file key
\* p the bucket holds a zero-byte object at p's key + "/"; and while that
\* object exists (and still no object at the file key p), a Stat(p) that
\* meets no backend fault returns a directory entity, and a ListDir of p's
\* parent whose listing succeeds and whose visitor accepts every entry visits
\* a directory entity named by p's last segment.
C7_MakeDirDiscoverable ==
    /\ (/\ last.op = "MakeDir"
        /\ Returned
        /\ last.err = "nil"
        /\ KeyOf(last.path) \notin DOMAIN Before)
       => /\ KeyOf(last.path) \o SEP \in DOMAIN After
          /\ After[KeyOf(last.path) \o SEP] = <<>>
    /\ \A p \in DirPaths :
          (/\ KeyOf(p) \o SEP \in DOMAIN Before
           /\ Before[KeyOf(p) \o SEP] = <<>>
           /\ KeyOf(p) \notin DOMAIN Before)
          => /\ (last.op = "Stat" /\ last.path = p /\ NoFault)
                => /\ Returned
                   /\ last.err = "nil"
                   /\ Len(last.ent) = 1
                   /\ last.ent[1].isDir
             /\ (Listed /\ DirKey(last.path) = ParentKey(KeyOf(p)))
                => [name |-> LastSegment(KeyOf(p)), isDir |-> TRUE] \in Shown

\* C8: every backend call of a driver call addresses the bucket resolved from
\* the session at that call (base + "-" + login user when the per-user flag
\* is set, else base), and the call leaves every other bucket as it was: after
\* the login user changed, a call reads and writes the new user's bucket only.
C8_BucketPerCall ==
    last.op # "none" =>
        /\ \A i \in 1..Len(last.calls) : last.calls[i].bucket = CallBucket
        /\ \A b \in Buckets \ {CallBucket} : store[b] = last.pre[b]

\* C8 happens: with per-user buckets, a call wrote to the bucket of the user
\* now logged in while the bucket of the user logged in before holds objects
C8_Witness ==
    /\ bucketPerUser
    /\ last.op = "PutFile"
    /\ Returned
    /\ After # Before
    /\ \E u \in Users \ {loginUser} : DOMAIN store[<<"b", "-", u>>] # {}

\* the Stat results that issue the backend calls the last call issued
StatOfLast == {Stat(last.path, env) : env \in {e \in Envs2 : Stat(last.path, e).calls = last.calls}}

\* C9: ChangeDir(path) sets the current directory to path when Stat(path)
\* succeeds with a directory entity; when Stat fails it returns Stat's error,
\* when Stat yields a file it returns "not a directory", and in both error
\* cases (and when Stat ends the process) the current directory is unchanged.
C9_ChangeDir ==
    last.op = "ChangeDir" =>
        /\ StatOfLast # {}
        /\ \A f \in StatOfLast :
              /\ (f.fate = "return" /\ f.err = "nil" /\ f.ent[1].isDir)
                     => (Returned /\ last.err = "nil" /\ curDir = last.path)
              /\ (f.fate = "return" /\ f.err # "nil")
                     => (Returned /\ last.err = f.err /\ curDir = last.preCur)
              /\ (f.fate = "return" /\ f.err = "nil" /\ ~f.ent[1].isDir)
                     => (Returned /\ last.err = "NotADirectory" /\ curDir = last.preCur)
              /\ f.fate # "return" => (~Returned /\ curDir = last.preCur)

\* C9 happens: ChangeDir moved the current directory
C9_Witness ==
    /\ last.op = "ChangeDir"
    /\ last.err = "nil"
    /\ Returned
    /\ curDir = last.path
    /\ curDir # last.preCur

\* C10: DeleteDir on a path whose key is the prefix of no object, when the
\* listing succeeds, returns no error, issues no delete and leaves every
\* bucket unchanged.
C10_DeleteDirNothing ==
    (/\ last.op = "DeleteDir"
     /\ Under(Before, KeyOf(last.path)) = {}
     /\ AllCallsOk)
    => /\ Returned
       /\ last.err = "nil"
       /\ CallsOf("Delete") = {}
       /\ store = last.pre

\* C10 happens: DeleteDir matched nothing in a bucket that holds objects
C10_Witness ==
    /\ last.op = "DeleteDir"
    /\ Under(Before, KeyOf(last.path)) = {}
    /\ DOMAIN Before # {}
    /\ AllCallsOk
    /\ Returned

\* C11: PutFile then GetFile round-trips the bytes. A PutFile(k, data, append)
\* whose backend call succeeds leaves exactly data at k, for either value of
\* append and whatever k held before; a GetFile(k, offset) whose backend calls
\* succeed returns, for any offset, exactly the bytes k holds (and their
\* count) and changes no bucket: with no write to k in between, GetFile
\* returns data.
C11_PutGetRoundTrip ==
    LET k == KeyOf(last.path)
    IN  /\ (last.op = "PutFile" /\ AllCallsOk) =>
               /\ Returned
               /\ last.err = "nil"
               /\ k \in DOMAIN After
               /\ After[k] = last.data
               /\ \A j \in DOMAIN Before \ {k} : j \in DOMAIN After /\ After[j] = Before[j]
        /\ (last.op = "GetFile" /\ AllCallsOk) =>
               /\ Returned
               /\ last.err = "nil"
               /\ last.body = Before[k]
               /\ last.size = Len(Before[k])
               /\ store = last.pre

\* C11 happens: PutFile with the append flag set wrote bytes over an object
\* that held bytes
C11_Witness ==
    /\ last.op = "PutFile"
    /\ last.opt = <<TRUE>>
    /\ AllCallsOk
    /\ Returned
    /\ KeyOf(last.path) \in DOMAIN Before
    /\ Before[KeyOf(last.path)] # <<>>
    /\ last.data # <<>>

\* an environment in which no backend call fails
NoFaultEnv == [at |-> 0, kind |-> "IOError", miss |-> "NotFound"]
\* what a ListDir of the last call's prefix, made now with a visitor that
\* accepts every entry, passes to its visitor
ListedAgain == ListDir(last.path, NoFaultEnv, 0).visited

C13_RenameAbortsOnFailure ==
    last.op = "Rename" =>
        \A i \in CallsOf("Copy") \cup CallsOf("Delete") :
            last.calls[i].err # "nil" =>
                /\ i = Len(last.calls)
                /\ Returned
                /\ last.err = last.calls[i].err
                /\ (last.calls[i].api = "Copy" /\ last.calls[i].key \in DOMAIN Before)
                       => /\ last.calls[i].key \in DOMAIN After
                          /\ After[last.calls[i].key] = Before[last.calls[i].key]

\* the key that Rename(src, dst) moves source key k to: dst's key for the file
\* at src's key, dst's directory key plus the rest for a key under src's
\* directory key
RenamedKey(k) ==
    IF k = KeyOf(last.path) THEN KeyOf(last.dest)
    ELSE KeyOf(last.dest) \o SEP \o Rest(k, KeyOf(last.path) \o SEP)
\* the objects stored under the source of the last Rename before the call
RenameSources ==
    {k \in DOMAIN Before :
        k = KeyOf(last.path) \/ HasPrefix(k, KeyOf(last.path) \o SEP)}

\* C14: Rename never loses object content. After Rename(src, dst), whether it
\* succeeded or failed and also when src = dst, the content of every object
\* stored under the source before the call is stored at its source key or at
\* its corresponding destination key.
C14_RenameKeepsContent ==
    last.op = "Rename" =>
        \A k \in RenameSources :
            \/ k \in DOMAIN After /\ After[k] = Before[k]
            \/ RenamedKey(k) \in DOMAIN After /\ After[RenamedKey(k)] = Before[k]

\* C15: DeleteDir(path) removes only objects inside the directory: every
\* object whose key does not begin with the path's key followed by "/" (a
\* sibling whose key only starts with the same characters included) is in
\* the bucket after the call, with its content.
C15_DeleteDirOnlyInside ==
    last.op = "DeleteDir" =>
        \A k \in DOMAIN Before :
            ~HasPrefix(k, DirKey(last.path)) =>
                k \in DOMAIN After /\ After[k] = Before[k]

\* the keys the listing of the last DeleteDir returned, in listing order
DeleteItems == ListKeys(Before, KeyOf(last.path))
\* the keys of a sequence of keys
KeysOf(items) == {items[i] : i \in 1..Len(items)}

\* C16: a DeleteDir whose listing succeeds and returns keys deletes them one
\* at a time in listing order. Its n-th delete is of the n-th listed key; only
\* its last delete can have failed, and then DeleteDir returns that error, the
\* keys before it are gone and it and the keys after it are in place; when no
\* delete failed, every listed key was deleted, DeleteDir returns no error
\* and no listed key remains. Every other key is as it was.
C16_DeleteDirOneByOne ==
    (/\ last.op = "DeleteDir"
     /\ last.calls[1].err = "nil"
     /\ DeleteItems # <<>>)
    => LET n == Len(last.calls) - 1
           failed == last.calls[n + 1].err # "nil"
           gone == IF failed THEN KeysOf(Take(DeleteItems, n - 1))
                   ELSE KeysOf(DeleteItems)
       IN  /\ Returned
           /\ n >= 1
           /\ n <= Len(DeleteItems)
           /\ \A i \in 1..n :
                  /\ last.calls[i + 1].api = "Delete"
                  /\ last.calls[i + 1].key = DeleteItems[i]
                  /\ i < n => last.calls[i + 1].err = "nil"
           /\ last.err = last.calls[n + 1].err
           /\ ~failed => n = Len(DeleteItems)
           /\ DOMAIN After = DOMAIN Before \ gone
           /\ \A k \in DOMAIN After : After[k] = Before[k]

\* C16 happens: the second of two deletes failed, the first key is gone and
\* the second is in place
C16_Witness ==
    /\ last.op = "DeleteDir"
    /\ Returned
    /\ Len(DeleteItems) = 2
    /\ Len(last.calls) = 3
    /\ last.calls[2].err = "nil"
    /\ last.calls[3].err # "nil"
    /\ last.err = last.calls[3].err
    /\ DOMAIN After = {DeleteItems[2]}

\* the entries of the last ListDir that were built from listed key k
EntriesOf(k) == {i \in 1..Len(last.visited) : last.visited[i].Object.Name = k}

\* C17: ListDir derives each entry name by removing the normalized prefix
\* once from the front of the listed key. After a ListDir whose listing
\* succeeded and whose visitor accepted every entry: a key whose remainder is
\* empty gave no entry; a key whose remainder has no separator gave a file
\* entity named exactly that remainder; an entity given by a key whose
\* remainder has a separator is a directory entity named exactly the
\* remainder's first segment, and the first listed key of each such segment
\* gave one.
C17_ListDirEntryNames ==
    Listed =>
        LET d == last.calls[1].key
        IN  \A n \in 1..Len(ListedKeys) :
                LET k == ListedKeys[n]
                    r == Rest(k, d)
                IN  /\ r = <<>> => EntriesOf(k) = {}
                    /\ (r # <<>> /\ ~Contains(r, SEP)) =>
                           /\ EntriesOf(k) # {}
                           /\ \A i \in EntriesOf(k) :
                                  /\ ~last.visited[i].isDir
                                  /\ last.visited[i].name = r
                    /\ Contains(r, SEP) =>
                           /\ \A i \in EntriesOf(k) :
                                  /\ last.visited[i].isDir
                                  /\ last.visited[i].name = SplitFirst(r, SEP)
                           /\ k = FirstKeyOf(SplitFirst(r, SEP), d) => EntriesOf(k) # {}

\* FileInfo.Size()
Size(f) == f.Object.Size
\* the entities the last call returned or passed to the visitor
Entities == {last.ent[i] : i \in 1..Len(last.ent)}
                \cup {last.visited[i] : i \in 1..Len(last.visited)}

\* C18: every directory entity returned by Stat or passed to the visitor by
\* ListDir carries no backend object record: its object is the zero object
\* and its size is 0.
C18_DirEntityNoObject ==
    last.op \in {"Stat", "ListDir"} =>
        \A f \in Entities :
            f.isDir => (f.Object = ZeroObject /\ Size(f) = 0)

\* the backend call on which the last driver call ended
FinalCall == last.calls[Len(last.calls)]

\* C19: a backend failure is returned to the caller as the operation's
\* error, failed prefix listings apart: when the backend call on which a
\* driver call ended failed and was not a listing, the driver call returned
\* and its error is that call's error. This covers a failed object lookup in
\* GetFile, a failed insert in PutFile and a not-found in DeleteFile.
C19_FailuresReturned ==
    (/\ last.op # "none"
     /\ last.calls # <<>>
     /\ FinalCall.err # "nil"
     /\ FinalCall.api # "List")
    => /\ Returned
       /\ last.err = FinalCall.err

\* C20: when the visitor returns an error at its n-th invocation, ListDir
\* returns that error and has invoked the visitor exactly n times: on the
\* first n entries that a ListDir with an accepting visitor visits, in order,
\* each once, and on no later entry.
C20_VisitorAborts ==
    (last.op = "ListDir" /\ last.calls[1].err = "nil" /\ last.opt[1] > 0) =>
        /\ Returned
        /\ last.err = "VisitorError"
        /\ Len(last.visited) = last.opt[1]
        /\ last.visited = Take(ListedAgain, last.opt[1])
        /\ \A i, j \in 1..Len(last.visited) :
               i < j => last.visited[i] # last.visited[j]

\* C20 happens: the visitor failed on the first of two entries and the
\* second was not visited
C20_Witness ==
    /\ last.op = "ListDir"
    /\ last.err = "VisitorError"
    /\ last.opt = <<1>>
    /\ Len(last.visited) = 1
    /\ Len(ListedAgain) = 2
====
